---- MODULE Spec2Model ----
(***************************************************************************)
(* Lala Panel: the site lifecycle workflows of app.py (create_site,        *)
(* update_site_php, request_ssl, upload_ssl, delete_site, save_vhost,      *)
(* test_nginx_config, save_php_ini) over the registry of database.py, the  *)
(* nginx                                                                   *)
(* sites-available / sites-enabled directories, the certificate            *)
(* directory and the content directories.                                  *)
(*                                                                         *)
(* site_manager.py (SiteManager, DatabaseManager) is not part of the       *)
(* sources at hand; its operations are modelled from the design document   *)
(* (sections 4.1-4.3) and are the sm_* and dbm_* definitions.              *)
(***************************************************************************)
EXTENDS Integers, Sequences, FiniteSets, TLC

\* ------------------------------------------------------------------ bounds
\* Largest id the AUTOINCREMENT counter of the sites table hands out.
MaxSiteId == 2
\* Number of request threads that may be inside create_site at once.
NumWorkers == 2

\* ------------------------------------------------------------------ inputs
\* the domains that have files on the machine, and those the requests of the
\* main specification name
Domains == {"a.com", "b.com"}
MainDomains == {"a.com"}
\* a domain value a form may submit that is not a lowercase DNS name
BadDomains == {"A.com"}
\* every name a file, a link or a certificate directory may carry
AllDomains == Domains \cup BadDomains
\* Config.AVAILABLE_PHP_VERSIONS
AVAILABLE_PHP_VERSIONS == {"8.5", "8.4", "8.3", "8.2", "8.1"}
\* php_version values a form submits
PhpInputs == {"8.3", "8.2"}
\* request.form.get('php_version') of a form without the field
None == "None"
\* php_version values a hand-made request may submit: a version of the
\* list, one that is not on it, and none
AnyPhpInputs == {"8.3", "7.4", None}
\* ssl_mode values a form submits
SslModes == {"auto", "domain_only", "manual", "none"}
\* the php_settings dictionary of a form, as a whole: the defaults or not
SettingsInputs == {"default", "custom"}
SiteIds == 1..MaxSiteId
\* request.remote_addr values
IPs == {"10.0.0.1", "10.0.0.2"}
\* the last tick of the clock, and the 15 minutes of get_recent_login_attempts
\* in ticks
MaxTime == 1
WindowTicks == 1
Ticks == 0..MaxTime
Workers == 1..NumWorkers

\* ------------------------------------------------- configuration documents
\* The content of a file of sites-available: whether nginx accepts its
\* syntax, whether it holds the listen-443 block with the domain's
\* certificate paths, and the runtime version and tunables written in it.
NoFile == [kind |-> "none"]
Malformed == [kind |-> "text", ok |-> FALSE, ssl |-> FALSE, php |-> "8.3", settings |-> "default"]
\* the first part of a document, as a copy that stopped half-way leaves it
Truncated == [kind |-> "text", ok |-> FALSE, ssl |-> FALSE, php |-> "8.3", settings |-> "cut"]

\* Config Renderer (section 4.1): a pure function of its inputs.
Render(domain, php_version, ssl_enabled, php_settings) ==
  [kind |-> "text", ok |-> TRUE, ssl |-> ssl_enabled, php |-> php_version,
   settings |-> php_settings]

\* config_content values a raw edit submits: malformed text, a valid
\* document without and one with the encrypted listener.
RawTexts == {Malformed, Render("-", "8.3", FALSE, "default"), Render("-", "8.3", TRUE, "default")}

\* ------------------------------------------------------------ certificates
\* Per domain, the mode of fullchain.pem and of privkey.pem ("none": absent).
NoCert == [chain |-> "none", key |-> "none"]
IssuedCert == [chain |-> "644", key |-> "600"]

VARIABLES
  sites,        \* rows of table sites: [id, domain, php_version, ssl_enabled]
  databases,    \* rows of table databases: [site_id, db_name]
  nextSiteId,   \* the AUTOINCREMENT counter of table sites
  avail,        \* sites-available: domain -> document or NoFile
  enabled,      \* sites-enabled: the domains that have a link
  certs,        \* /etc/letsencrypt/live/<domain>: domain -> file modes
  dirs,         \* the domains whose content directory tree exists
  mysql,        \* the databases that exist in MariaDB
  ftp_users,    \* rows of table ftp_users: [site_id, username]
  sysusers,     \* the FTP/SSH accounts that exist on the machine
  temp,         \* sites-available/<domain>.tmp: domain -> document or NoFile
  backup,       \* sites-available/<domain>.backup: domain -> document or NoFile
  job,          \* worker -> the raw-configuration request it is inside of
  pending,      \* worker -> the form of a create_site past its pre-check
  last,         \* the outcome of the last completed workflow
  components,   \* the globals db, site_manager, db_manager, user_manager:
                \* how many times each was constructed and assigned (0: None)
  initjob,      \* worker -> its position inside init_components
  panel,        \* table panel_settings (panel_domain, panel_port,
                \* panel_ssl_enabled), the panel's own nginx configuration as
                \* last rendered (conf) and whether its certificate exists
  attempts,     \* table login_attempts: ip -> tick -> number of rows
  now,          \* the clock, in ticks
  loginjob,     \* worker -> the login POST it is inside of
  conn          \* worker -> the get_connection block it is inside of

\* the state outside the site workflows
initvars == <<components, initjob>>
loginvars == <<attempts, now, loginjob>>
others == <<initvars, panel, loginvars, conn>>

vars == <<sites, databases, nextSiteId, avail, enabled, certs, dirs, mysql, ftp_users,
          sysusers, temp, backup, job, pending, last, components, initjob, panel,
          attempts, now, loginjob, conn>>

World ==
  [sites |-> sites, databases |-> databases, nextSiteId |-> nextSiteId,
   avail |-> avail, enabled |-> enabled, certs |-> certs, dirs |-> dirs,
   mysql |-> mysql, ftp_users |-> ftp_users, sysusers |-> sysusers,
   temp |-> temp, backup |-> backup]

NoRow == [id |-> 0]
\* a worker outside login, and one outside every get_connection block
NoLogin == [pc |-> "idle"]
NoConn == [pc |-> "idle", open |-> FALSE]
\* the four module globals of app.py, in the order init_components assigns
\* them
Globals == {"db", "site_manager", "db_manager", "user_manager"}
GlobalOrder == <<"db", "site_manager", "db_manager", "user_manager">>
\* a worker outside init_components: pc 0; done and ret say whether a call
\* of its has returned and which globals were not None in what the last one
\* returned
NotInInit == [pc |-> 0, done |-> FALSE, ret |-> {}]
NoForm == [domain |-> "-"]
Idle == [op |-> "idle"]

\* ------------------------------------------------------------- database.py
db_get_site(w, site_id) ==
  IF \E r \in w.sites : r.id = site_id
  THEN CHOOSE r \in w.sites : r.id = site_id
  ELSE NoRow

db_get_site_by_domain(w, domain) ==
  IF \E r \in w.sites : r.domain = domain
  THEN CHOOSE r \in w.sites : r.domain = domain
  ELSE NoRow

\* Variant: table sites without the UNIQUE constraint on domain.
UniqueViolation_none(w, domain) == FALSE

\* domain TEXT UNIQUE NOT NULL: the INSERT raises IntegrityError
UniqueViolation(w, domain) == \E r \in w.sites : r.domain = domain

\* php_version TEXT NOT NULL: an INSERT or UPDATE that binds None raises
\* IntegrityError
NotNullViolation(php_version) == php_version = None

db_create_site(w, domain, php_version, ssl_enabled) ==
  [w EXCEPT !.sites = @ \cup {[id |-> w.nextSiteId, domain |-> domain,
                               php_version |-> php_version,
                               ssl_enabled |-> ssl_enabled]},
            !.nextSiteId = @ + 1]

db_update_site_php(w, site_id, php_version) ==
  [w EXCEPT !.sites = {IF r.id = site_id THEN [r EXCEPT !.php_version = php_version] ELSE r
                        : r \in @}]

\* Variant: "SET ssl_enabled = NOT ssl_enabled".
db_update_site_ssl_toggle(w, site_id, ssl_enabled) ==
  [w EXCEPT !.sites = {IF r.id = site_id THEN [r EXCEPT !.ssl_enabled = ~@] ELSE r
                        : r \in @}]

db_update_site_ssl(w, site_id, ssl_enabled) ==
  [w EXCEPT !.sites = {IF r.id = site_id THEN [r EXCEPT !.ssl_enabled = ssl_enabled] ELSE r
                        : r \in @}]

\* Variant: the DELETE without its WHERE clause.
db_delete_site_all(w, site_id) == [w EXCEPT !.sites = {}]

\* DELETE FROM sites WHERE id = ?  (the connection never turns foreign keys
\* on, so no row of databases goes with it)
db_delete_site(w, site_id) ==
  [w EXCEPT !.sites = {r \in @ : r.id # site_id}]

db_create_database(w, site_id, db_name) ==
  [w EXCEPT !.databases = @ \cup {[site_id |-> site_id, db_name |-> db_name]}]

db_get_databases_for_site(w, site_id) == {r \in w.databases : r.site_id = site_id}

db_create_ftp_user(w, site_id, username) ==
  [w EXCEPT !.ftp_users = @ \cup {[site_id |-> site_id, username |-> username]}]

\* ------------------------------------------------------------------- nginx
CertExists(w, domain) ==
  w.certs[domain].chain # "none" /\ w.certs[domain].key # "none"

\* /usr/sbin/nginx -t: every enabled document parses and every certificate
\* an enabled document names is on disk.
NginxTest(w) ==
  \A d \in w.enabled :
    /\ w.avail[d] # NoFile
    /\ w.avail[d].ok
    /\ (w.avail[d].ssl => CertExists(w, d))

\* ---------------------------------------- site_manager.py (from the design)
sm_create_site_directories(w, domain) == [w EXCEPT !.dirs = @ \cup {domain}]

\* render + write(domain, text)
sm_create_nginx_config(w, domain, php_version, ssl_enabled, php_settings) ==
  [w EXCEPT !.avail[domain] = Render(domain, php_version, ssl_enabled, php_settings)]

sm_enable_site(w, domain) == [w EXCEPT !.enabled = @ \cup {domain}]

\* Variant: disable that removes the available file with the link.
sm_disable_site_unlink(w, domain) ==
  [w EXCEPT !.enabled = @ \ {domain}, !.avail[domain] = NoFile]

sm_disable_site(w, domain) == [w EXCEPT !.enabled = @ \ {domain}]

sm_request_ssl_certificate(w, domain) == [w EXCEPT !.certs[domain] = IssuedCert]

sm_delete_site_files(w, domain) == [w EXCEPT !.dirs = @ \ {domain}]

\* test_and_apply(domain, text): write, validate, keep on success, restore
\* the snapshot on failure.
test_and_apply(w, domain, text) ==
  LET w1 == [w EXCEPT !.avail[domain] = text]
  IN  IF NginxTest(w1) THEN [ok |-> TRUE, w |-> w1] ELSE [ok |-> FALSE, w |-> w]

\* re-render with the TLS state of the registry, the tunables of the current
\* document and the new version, then test_and_apply
sm_update_php_version(w, domain, php_version) ==
  IF w.avail[domain] = NoFile
  THEN [ok |-> FALSE, w |-> w]
  ELSE test_and_apply(w, domain,
         Render(domain, php_version, db_get_site_by_domain(w, domain).ssl_enabled,
                w.avail[domain].settings))

dbm_create_database(w, db_name) == [w EXCEPT !.mysql = @ \cup {db_name}]

dbm_delete_database(w, db_name) == [w EXCEPT !.mysql = @ \ {db_name}]

\* UserManager.create_ftp_user: the account exists on the machine afterwards
um_create_ftp_user(w, username) == [w EXCEPT !.sysusers = @ \cup {username}]

\* SiteManager.create_panel_nginx_config(panel_domain, ssl_enabled): the
\* panel's own server block, rendered for the domain with or without the
\* encrypted listener; p is the panel's state
sm_create_panel_nginx_config(p, panel_domain, ssl_enabled) ==
  [p EXCEPT !.conf = [kind |-> "text", domain |-> panel_domain, ssl |-> ssl_enabled]]

\* Database.set_panel_setting: INSERT ... ON CONFLICT(setting_key) DO UPDATE
db_set_panel_setting(p, key, value) ==
  CASE key = "panel_domain"      -> [p EXCEPT !.panel_domain = value]
    [] key = "panel_port"        -> [p EXCEPT !.panel_port = value]
    [] key = "panel_ssl_enabled" -> [p EXCEPT !.panel_ssl_enabled = value]

\* ------------------------------------------------------- steps of a handler
\* What a handler passes to the calls it makes.
Ctx(domain, php, settings, ssl, site_id, text) ==
  [domain |-> domain, php |-> php, settings |-> settings, ssl |-> ssl,
   site_id |-> site_id, text |-> text]

\* One call of a handler, by name, applied to the world.
Exec(step, w, c) ==
  CASE step = "mkdirs"        -> sm_create_site_directories(w, c.domain)
    [] step = "write_plain"   -> sm_create_nginx_config(w, c.domain, c.php, FALSE, c.settings)
    [] step = "write_tls"     -> sm_create_nginx_config(w, c.domain, c.php, TRUE, c.settings)
    [] step = "write_tls_default" -> sm_create_nginx_config(w, c.domain, c.php, TRUE, "default")
    [] step = "write_current" -> sm_create_nginx_config(w, c.domain, c.php, c.ssl, c.settings)
    [] step = "enable"        -> sm_enable_site(w, c.domain)
    [] step = "enable_tls"    -> sm_enable_site(w, c.domain)
    [] step = "disable"       -> sm_disable_site(w, c.domain)
    [] step = "issue"         -> sm_request_ssl_certificate(w, c.domain)
    [] step = "rmtree"        -> sm_delete_site_files(w, c.domain)
    [] step = "update_php"    -> sm_update_php_version(w, c.domain, c.php).w
    [] step = "insert"        -> db_create_site(w, c.domain, c.php, c.ssl)
    [] step = "db_update_php" -> db_update_site_php(w, c.site_id, c.php)
    [] step = "db_update_ssl" -> db_update_site_ssl(w, c.site_id, TRUE)
    [] step = "db_delete"     -> db_delete_site(w, c.site_id)
    [] step = "mysql_create"  -> dbm_create_database(w, c.site_id)
    [] step = "db_row"        -> db_create_database(w, c.site_id, c.site_id)
    [] step = "ftp_create"    -> um_create_ftp_user(w, c.site_id)
    [] step = "ftp_row"       -> db_create_ftp_user(w, c.site_id, c.site_id)
    [] step = "drop_databases" ->
         [w EXCEPT !.mysql = @ \ {r.db_name : r \in db_get_databases_for_site(w, c.site_id)}]
    [] step = "save_cert"     ->
         [w EXCEPT !.certs[c.domain].chain = IF @ = "none" THEN "644" ELSE @]
    [] step = "save_key"      ->
         [w EXCEPT !.certs[c.domain].key = IF @ = "none" THEN "644" ELSE @]
    [] step = "chmod_cert"    -> [w EXCEPT !.certs[c.domain].chain = "644"]
    [] step = "chmod_key"     -> [w EXCEPT !.certs[c.domain].key = "600"]
    [] step = "write_raw"     -> [w EXCEPT !.avail[c.domain] = c.text]
    [] step = "set_panel_domain" -> db_set_panel_setting(w, "panel_domain", c.domain)
    [] step = "set_panel_port"   -> db_set_panel_setting(w, "panel_port", c.text)
    [] step = "set_panel_ssl_on" -> db_set_panel_setting(w, "panel_ssl_enabled", "1")
    [] step = "set_panel_ssl_off" -> db_set_panel_setting(w, "panel_ssl_enabled", "0")
    [] step = "panel_config_current" ->
         sm_create_panel_nginx_config(w, c.domain, w.panel_ssl_enabled = "1")
    [] step = "panel_config_plain"  -> sm_create_panel_nginx_config(w, c.domain, FALSE)
    [] step = "panel_config_tls"    -> sm_create_panel_nginx_config(w, c.domain, TRUE)
    [] step = "panel_config_revert" -> sm_create_panel_nginx_config(w, c.domain, FALSE)
    [] step = "panel_config_off"    -> sm_create_panel_nginx_config(w, c.domain, FALSE)
    [] step = "panel_issue"         -> [w EXCEPT !.cert = TRUE]
    [] OTHER                  -> w

\* A call raises when the environment makes it fail (f) or when the state
\* makes it fail: the UNIQUE constraint, a failed test_and_apply.
Raises(step, w, c, f) ==
  \/ step \in f
  \/ step = "insert" /\ (UniqueViolation(w, c.domain) \/ NotNullViolation(c.php))
  \/ step = "db_update_php" /\ NotNullViolation(c.php)
  \/ step = "update_php" /\ ~sm_update_php_version(w, c.domain, c.php).ok

\* The statements of one try block in order: the first call that raises
\* ends the block, with the effects of the calls before it in place.
RECURSIVE Run(_, _, _, _)
Run(w, steps, f, c) ==
  IF steps = <<>>
  THEN [w |-> w, trace |-> <<>>, raised |-> FALSE, failed |-> {}]
  ELSE LET s == Head(steps)
       IN  IF Raises(s, w, c, f)
           THEN [w |-> IF s = "update_php" /\ s \notin f THEN Exec(s, w, c) ELSE w,
                 trace |-> <<s>>, raised |-> TRUE, failed |-> {s}]
           ELSE LET r == Run(Exec(s, w, c), Tail(steps), f, c)
                IN  [r EXCEPT !.trace = <<s>> \o @]

Skip(w) == [w |-> w, trace |-> <<>>, raised |-> FALSE, failed |-> {}]

\* What a handler leaves: the world, the categories and kinds of the
\* messages it flashed, the calls it made and those that raised.
Result(w, flashes, trace, failed) ==
  [w |-> w, flashes |-> flashes, trace |-> trace, failed |-> failed]

\* ------------------------------------------------------------------ app.py
\* Variant: the TLS document written before the certificate is requested.
CreateTlsSteps_write_first == <<"write_tls", "issue", "enable_tls">>

\* the calls of create_site's inner try block for ssl_mode auto and
\* domain_only
CreateTlsSteps == <<"issue", "write_tls", "enable_tls">>

\* Variant: the requested TLS state persisted instead of the resulting one.
create_ssl_enabled_requested(tls, raised) == tls

\* ssl_enabled as create_site passes it to db.create_site: set only after
\* the three calls of the inner try block returned
create_ssl_enabled(tls, raised) == tls /\ ~raised

\* Variant: create_site without its pre-check.
create_precheck_none(w, domain) == FALSE

\* "if db.get_site_by_domain(domain)"
create_precheck(w, domain) == db_get_site_by_domain(w, domain) # NoRow

\* Variant: the link created before the file it points to is written.
CreateBaseSteps_enable_first == <<"mkdirs", "enable", "write_plain">>

\* the first calls of create_site's try block
CreateBaseSteps == <<"mkdirs", "write_plain", "enable">>

\* Variant: the optional steps of create_site without their own try/except.
optional_propagates_uncaught(raised) == raised

\* whether an exception of an optional step (database, FTP/SSH user) reaches
\* the outer except clause of create_site: each has its own try/except
optional_propagates(raised) == FALSE

\* create_site as far as it has run: the world, the messages flashed, the
\* calls made and those that raised, the local ssl_enabled, and whether an
\* exception has reached the outer except clause.
Progress(w) ==
  [w |-> w, flashes |-> {}, trace |-> <<>>, failed |-> {}, ssl |-> FALSE, aborted |-> FALSE]

\* lines 181-188
create_base(w, f, c) ==
  LET r == Run(w, CreateBaseSteps, f, c)
  IN  [Progress(r.w) EXCEPT !.trace = r.trace, !.failed = r.failed, !.aborted = r.raised]

\* lines 190-213: the inner try block of ssl_mode auto and domain_only
create_tls(st, ssl_mode, f, c) ==
  IF st.aborted THEN st
  ELSE IF ssl_mode \in {"auto", "domain_only"}
  THEN LET r == Run(st.w, CreateTlsSteps, f, c)
       IN  [st EXCEPT !.w = r.w, !.trace = @ \o r.trace, !.failed = @ \cup r.failed,
                      !.ssl = create_ssl_enabled(TRUE, r.raised),
                      !.flashes = @ \cup (IF r.raised THEN {"warning:ssl"} ELSE {"success:ssl"})]
  ELSE [st EXCEPT !.ssl = create_ssl_enabled(FALSE, FALSE),
                  !.flashes = @ \cup (IF ssl_mode = "manual" THEN {"info:manual"} ELSE {})]

\* line 216
create_insert(st, f, c) ==
  IF st.aborted THEN st
  ELSE LET r == Run(st.w, <<"insert">>, f, [c EXCEPT !.ssl = st.ssl])
       IN  [st EXCEPT !.w = r.w, !.trace = @ \o r.trace, !.failed = @ \cup r.failed,
                      !.aborted = r.raised]

\* lines 219-232 and 235-256: an optional step in its own try/except
create_optional(st, requested, steps, warning, success, f, c) ==
  IF st.aborted \/ ~requested THEN st
  ELSE LET r == Run(st.w, steps, f, c)
       IN  IF optional_propagates(r.raised)
           THEN [st EXCEPT !.w = r.w, !.trace = @ \o r.trace, !.failed = @ \cup r.failed,
                           !.aborted = TRUE]
           ELSE [st EXCEPT !.w = r.w, !.trace = @ \o r.trace, !.failed = @ \cup r.failed,
                           !.flashes = @ \cup (IF r.raised THEN {warning} ELSE {success})]

\* lines 258-264: the success message, or the outer except clause
create_finish(st) ==
  Result(st.w,
         st.flashes \cup (IF st.aborted THEN {"error:exception"} ELSE {"success:site"}),
         st.trace, st.failed)

\* POST /sites/create, after the pre-check: directories, configuration,
\* enable, the certificate (a failure is a warning), the registry row, the
\* optional database and the optional FTP/SSH user (a failure of either is a
\* warning).
create_site_body(w, form, f) ==
  LET c == Ctx(form.domain, form.php_version, form.php_settings, FALSE, w.nextSiteId, NoFile)
  IN  create_finish(
        create_optional(
          create_optional(
            create_insert(create_tls(create_base(w, f, c), form.ssl_mode, f, c), f, c),
            form.create_database, <<"mysql_create", "db_row">>, "warning:db", "success:db", f, c),
          form.create_ftp_user, <<"ftp_create", "ftp_row">>, "warning:ftp", "success:ftp", f, c))

\* POST /sites/create
create_site(w, form, f) ==
  IF create_precheck(w, form.domain)
  THEN Result(w, {"error:exists"}, <<>>, {})
  ELSE create_site_body(w, form, f)

\* Variant: the registry updated before the configuration is activated.
UpdatePhpSteps_registry_first == <<"db_update_php", "update_php">>

\* the calls of update_site_php's try block
UpdatePhpSteps == <<"update_php", "db_update_php">>

\* POST /sites/<id>/update-php
update_site_php(w, site_id, new_php_version, f) ==
  LET site == db_get_site(w, site_id)
  IN  IF site = NoRow
      THEN Result(w, {"error:notfound"}, <<>>, {})
      ELSE LET c == Ctx(site.domain, new_php_version, "default", FALSE, site_id, NoFile)
               r == Run(w, UpdatePhpSteps, f, c)
           IN  Result(r.w, IF r.raised THEN {"error:exception"} ELSE {"success:php"},
                      r.trace, r.failed)

\* Variant: ssl_enabled persisted before the certificate is requested.
RequestSslSteps_registry_first == <<"db_update_ssl", "issue", "write_tls_default", "enable_tls">>

\* the calls of request_ssl's try block
RequestSslSteps == <<"issue", "write_tls_default", "enable_tls", "db_update_ssl">>

\* Variant: request_ssl without the "if not site" return: the try block is
\* entered for an id that has no row and its first call is made.
request_ssl_unguarded(w, site_id, f) ==
  LET site == db_get_site(w, site_id)
      c == Ctx(IF site = NoRow THEN "a.com" ELSE site.domain,
               IF site = NoRow THEN "8.3" ELSE site.php_version,
               "default", TRUE, site_id, NoFile)
      r == Run(w, RequestSslSteps, f, c)
  IN  Result(r.w, IF r.raised THEN {"error:exception"} ELSE {"success:ssl"},
             r.trace, r.failed)

\* POST /sites/<id>/request-ssl
request_ssl(w, site_id, f) ==
  LET site == db_get_site(w, site_id)
  IN  IF site = NoRow
      THEN Result(w, {"error:notfound"}, <<>>, {})
      ELSE LET c == Ctx(site.domain, site.php_version, "default", TRUE, site_id, NoFile)
               r == Run(w, RequestSslSteps, f, c)
           IN  Result(r.w, IF r.raised THEN {"error:exception"} ELSE {"success:ssl"},
                      r.trace, r.failed)

\* Variant: ssl_enabled persisted before the files are saved.
UploadSslSteps_registry_first ==
  <<"db_update_ssl", "save_cert", "save_key", "chmod_cert", "chmod_key",
    "write_tls_default", "enable_tls">>

\* the calls of upload_ssl's try block
UploadSslSteps ==
  <<"save_cert", "save_key", "chmod_cert", "chmod_key",
    "write_tls_default", "enable_tls", "db_update_ssl">>

\* POST /sites/<id>/upload-ssl
upload_ssl(w, site_id, has_cert, has_key, f) ==
  LET site == db_get_site(w, site_id)
  IN  IF site = NoRow
      THEN Result(w, {"error:notfound"}, <<>>, {})
      ELSE IF ~has_cert \/ ~has_key
      THEN Result(w, {"error:required"}, <<>>, {})
      ELSE LET c == Ctx(site.domain, site.php_version, "default", TRUE, site_id, NoFile)
               r == Run(w, UploadSslSteps, f, c)
           IN  Result(r.w, IF r.raised THEN {"error:exception"} ELSE {"success:ssl"},
                      r.trace, r.failed)

\* Variant: the registry row removed first.
DeleteSteps_row_first == <<"db_delete", "disable", "drop_databases", "rmtree">>

\* The calls of delete_site's try block, in order; the removal of the
\* provisioned databases swallows its own exceptions.
DeleteSteps == <<"disable", "drop_databases", "rmtree", "db_delete">>

\* POST /sites/<id>/delete
delete_site(w, site_id, f) ==
  LET site == db_get_site(w, site_id)
  IN  IF site = NoRow
      THEN Result(w, {"error:notfound"}, <<>>, {})
      ELSE LET c == Ctx(site.domain, site.php_version, "default", FALSE, site_id, NoFile)
               dbs == db_get_databases_for_site(w, site_id)
               steps == IF "mysql_drop" \in f /\ dbs # {}
                        THEN SelectSeq(DeleteSteps, LAMBDA s : s # "drop_databases")
                        ELSE DeleteSteps
               r == Run(w, steps, f, c)
               swallowed == IF "mysql_drop" \in f /\ dbs # {} /\ "disable" \notin r.failed
                            THEN {"mysql_drop"} ELSE {}
           IN  Result(r.w, IF r.raised THEN {"error:exception"} ELSE {"success:deleted"},
                      r.trace, r.failed \cup swallowed)

\* POST /sites/<id>/vhost/save
save_vhost(w, site_id, config_content, f) ==
  LET site == db_get_site(w, site_id)
  IN  IF site = NoRow
      THEN Result(w, {"error:notfound"}, <<>>, {})
      ELSE LET c == Ctx(site.domain, site.php_version, "default", FALSE, site_id, config_content)
               r == Run(w, <<"write_raw", "nginx_t">>, f, c)
           IN  IF r.raised
               THEN Result(r.w, {"error:exception"}, r.trace, r.failed)
               ELSE IF ~NginxTest(r.w)
               THEN Result(r.w, {"warning:nginx_test"}, r.trace, {})
               ELSE Result(r.w, {"success:vhost"}, r.trace \o <<"reload">>, {})

\* The file operations of test_nginx_config on <domain>, <domain>.tmp and
\* <domain>.backup. open(temp_path, 'w') + write:
tn_write_temp(w, d, text) == [w EXCEPT !.temp[d] = text]

\* shutil.copy2(config_path, backup_path); raises when there is no source
tn_copy_backup(w, d) == [w EXCEPT !.backup[d] = w.avail[d]]

\* shutil.move(temp_path, config_path); raises when there is no source
tn_move_temp(w, d) == [w EXCEPT !.avail[d] = w.temp[d], !.temp[d] = NoFile]

\* shutil.move(backup_path, config_path); raises when there is no source
tn_move_backup(w, d) == [w EXCEPT !.avail[d] = w.backup[d], !.backup[d] = NoFile]

\* The except clause of test_nginx_config: the temporary file is removed if
\* it exists, the backup is moved back if it exists, and the failure is
\* reported. backup_path is a local that is assigned after the temporary
\* file was written (bound): reading it before raises UnboundLocalError
\* inside the except clause, and that exception and one of the move leave
\* the handler.
tn_except(w, d, bound, trace, failed, f) ==
  LET w1 == [w EXCEPT !.temp[d] = NoFile]
  IN  IF ~bound
      THEN Result(w1, {"escaped:UnboundLocalError"}, trace, failed)
      ELSE IF w1.backup[d] = NoFile
      THEN Result(w1, {"json:error"}, trace, failed)
      ELSE IF "restore_again" \in f
      THEN Result(w1, {"escaped:exception"}, trace \o <<"restore_again">>,
                  failed \cup {"restore_again"})
      ELSE Result(tn_move_backup(w1, d), {"json:error"}, trace \o <<"restore_again">>, failed)

\* POST /sites/<id>/vhost/test. The calls the environment may make fail:
\* write_temp; backup (copy2 raises before it creates the copy),
\* backup_partial (it raises half-way through the copy), backup_stat (it
\* raises after the copy, in copystat); replace; nginx_t (the subprocess
\* cannot be run); restore (the move raises, the backup stays),
\* restore_vanished (the backup is gone when the move is made);
\* restore_again (the move of the except clause raises).
test_nginx_config(w, site_id, config_content, f) ==
  LET site == db_get_site(w, site_id)
  IN  IF site = NoRow
      THEN Result(w, {"json:notfound"}, <<>>, {})
      ELSE
      LET d  == site.domain
          w1 == tn_write_temp(w, d, config_content)
          w2 == tn_copy_backup(w1, d)
          w3 == tn_move_temp(w2, d)
          t1 == <<"write_temp">>
          t2 == <<"write_temp", "backup">>
          t3 == <<"write_temp", "backup", "replace">>
          t4 == <<"write_temp", "backup", "replace", "nginx_t">>
          t5 == <<"write_temp", "backup", "replace", "nginx_t", "restore">>
      IN  IF "write_temp" \in f
          THEN tn_except(w, d, FALSE, t1, {"write_temp"}, f)
          ELSE IF "backup" \in f \/ w1.avail[d] = NoFile
          THEN tn_except(w1, d, TRUE, t2, {"backup"}, f)
          ELSE IF "backup_partial" \in f
          THEN tn_except([w1 EXCEPT !.backup[d] = Truncated], d, TRUE, t2, {"backup_partial"}, f)
          ELSE IF "backup_stat" \in f
          THEN tn_except(w2, d, TRUE, t2, {"backup_stat"}, f)
          ELSE IF "replace" \in f \/ w2.temp[d] = NoFile
          THEN tn_except(w2, d, TRUE, t3, {"replace"}, f)
          ELSE IF "nginx_t" \in f
          THEN tn_except(w3, d, TRUE, t4, {"nginx_t"}, f)
          ELSE IF "restore" \in f \/ w3.backup[d] = NoFile
          THEN tn_except(w3, d, TRUE, t5, {"restore"}, f)
          ELSE IF "restore_vanished" \in f
          THEN tn_except([w3 EXCEPT !.backup[d] = NoFile], d, TRUE, t5, {"restore_vanished"}, f)
          ELSE Result(tn_move_backup(w3, d),
                      IF NginxTest(w3) THEN {"json:success"} ELSE {"json:fail"}, t5, {})

\* Variant: the settings page rendering without the encrypted listener.
php_ini_ssl_off(site) == FALSE

\* "ssl_enabled=site['ssl_enabled']": the TLS state save_php_ini renders with
php_ini_ssl(site) == site.ssl_enabled

\* Variant: save_php_ini without the "if not site" return: site['domain']
\* raises inside the try block for an id that has no row.
save_php_ini_unguarded(w, site_id, php_settings, f) ==
  LET site == db_get_site(w, site_id)
  IN  IF site = NoRow
      THEN Result(w, {"error:exception"}, <<>>, {})
      ELSE LET c == Ctx(site.domain, site.php_version, php_settings, php_ini_ssl(site),
                        site_id, NoFile)
               r == Run(w, <<"write_current", "enable">>, f, c)
           IN  Result(r.w, IF r.raised THEN {"error:exception"} ELSE {"success:php_ini"},
                      r.trace, r.failed)

\* POST /sites/<id>/php-ini/save
save_php_ini(w, site_id, php_settings, f) ==
  LET site == db_get_site(w, site_id)
  IN  IF site = NoRow
      THEN Result(w, {"error:notfound"}, <<>>, {})
      ELSE LET c == Ctx(site.domain, site.php_version, php_settings, php_ini_ssl(site),
                        site_id, NoFile)
               r == Run(w, <<"write_current", "enable">>, f, c)
           IN  Result(r.w, IF r.raised THEN {"error:exception"} ELSE {"success:php_ini"},
                      r.trace, r.failed)

\* --------------------------------------------------------- failure choices
\* The calls the environment may make fail within one request. A failure
\* that the handler never reaches is no different from no failure, so the
\* actions keep only the choices whose failures all happen.
OneOf(S) == {{}} \cup {{s} : s \in S}

CreateFailures(form) ==
  {f1 \cup f2 \cup f3 \cup f4 :
     f1 \in OneOf({"mkdirs", "write_plain", "enable", "insert"}),
     f2 \in IF form.ssl_mode \in {"auto", "domain_only"}
            THEN OneOf({"issue", "write_tls", "enable_tls"}) ELSE {{}},
     f3 \in IF form.create_database THEN OneOf({"mysql_create", "db_row"}) ELSE {{}},
     f4 \in IF form.create_ftp_user THEN OneOf({"ftp_create", "ftp_row"}) ELSE {{}}}

TestFailures ==
  OneOf({"write_temp", "backup", "backup_partial", "backup_stat", "replace", "nginx_t",
         "restore", "restore_vanished"})
    \cup {{s, "restore_again"} : s \in {"backup_partial", "backup_stat", "replace", "nginx_t", "restore"}}

DeleteFailures ==
  {f \cup g : f \in OneOf({"disable", "rmtree", "db_delete"}), g \in OneOf({"mysql_drop"})}

\* ----------------------------------------------------------------- actions
Commit(r) ==
  /\ sites' = r.w.sites
  /\ databases' = r.w.databases
  /\ nextSiteId' = r.w.nextSiteId
  /\ avail' = r.w.avail
  /\ enabled' = r.w.enabled
  /\ certs' = r.w.certs
  /\ dirs' = r.w.dirs
  /\ mysql' = r.w.mysql
  /\ ftp_users' = r.w.ftp_users
  /\ sysusers' = r.w.sysusers
  /\ temp' = r.w.temp
  /\ backup' = r.w.backup

Outcome(op, site_id, domain, mode, r) ==
  [op |-> op, id |-> site_id, domain |-> domain, mode |-> mode, opts |-> {},
   flashes |-> r.flashes, trace |-> r.trace, failed |-> r.failed]

\* the optional steps a create form asks for
FormOpts(form) ==
  (IF form.create_database THEN {"db"} ELSE {}) \cup (IF form.create_ftp_user THEN {"ftp"} ELSE {})

Forms(domains, settings, with_database) ==
  [domain : domains, php_version : PhpInputs, ssl_mode : SslModes,
   php_settings : settings, create_database : with_database, create_ftp_user : {FALSE}]

DomainOf(w, site_id) ==
  IF db_get_site(w, site_id) = NoRow THEN "-" ELSE db_get_site(w, site_id).domain

CreateSite(form, f) ==
  /\ nextSiteId <= MaxSiteId
  /\ LET r == create_site(World, form, f)
     IN  /\ f \subseteq r.failed
         /\ Commit(r)
         /\ last' = [Outcome("create", 0, form.domain, form.ssl_mode, r)
                       EXCEPT !.opts = FormOpts(form)]
  /\ UNCHANGED <<pending, job, others>>

UpdateSitePhp(site_id, new_php_version, f) ==
  /\ LET r == update_site_php(World, site_id, new_php_version, f)
     IN  /\ f \subseteq r.failed
         /\ Commit(r)
         /\ last' = Outcome("update_php", site_id, DomainOf(World, site_id), new_php_version, r)
  /\ UNCHANGED <<pending, job, others>>

RequestSsl(site_id, f) ==
  /\ LET r == request_ssl(World, site_id, f)
     IN  /\ f \subseteq r.failed
         /\ Commit(r)
         /\ last' = Outcome("request_ssl", site_id, DomainOf(World, site_id), "-", r)
  /\ UNCHANGED <<pending, job, others>>

UploadSsl(site_id, has_cert, has_key, f) ==
  /\ LET r == upload_ssl(World, site_id, has_cert, has_key, f)
     IN  /\ f \subseteq r.failed
         /\ Commit(r)
         /\ last' = Outcome("upload_ssl", site_id, DomainOf(World, site_id),
                            IF has_cert /\ has_key THEN "both" ELSE "missing", r)
  /\ UNCHANGED <<pending, job, others>>

DeleteSite(site_id, f) ==
  /\ LET r == delete_site(World, site_id, f)
     IN  /\ f \subseteq r.failed
         /\ Commit(r)
         /\ last' = Outcome("delete", site_id, DomainOf(World, site_id), "-", r)
  /\ UNCHANGED <<pending, job, others>>

SaveVhost(site_id, config_content, f) ==
  /\ LET r == save_vhost(World, site_id, config_content, f)
     IN  /\ f \subseteq r.failed
         /\ Commit(r)
         /\ last' = Outcome("save_vhost", site_id, DomainOf(World, site_id),
                            IF config_content.ok THEN "valid" ELSE "malformed", r)
  /\ UNCHANGED <<pending, job, others>>

TestNginxConfig(site_id, config_content, f) ==
  /\ LET r == test_nginx_config(World, site_id, config_content, f)
     IN  /\ f \subseteq r.failed
         /\ Commit(r)
         /\ last' = Outcome("test_config", site_id, DomainOf(World, site_id),
                            IF config_content.ok THEN "valid" ELSE "malformed", r)
  /\ UNCHANGED <<pending, job, others>>

SavePhpIni(site_id, php_settings, f) ==
  /\ LET r == save_php_ini(World, site_id, php_settings, f)
     IN  /\ f \subseteq r.failed
         /\ Commit(r)
         /\ last' = Outcome("save_php_ini", site_id, DomainOf(World, site_id), php_settings, r)
  /\ UNCHANGED <<pending, job, others>>

\* ------------------------------------------------------------ specification
Init ==
  /\ sites = {}
  /\ databases = {}
  /\ nextSiteId = 1
  /\ avail = [d \in AllDomains |-> NoFile]
  /\ enabled = {}
  /\ certs = [d \in AllDomains |-> NoCert]
  /\ dirs = {}
  /\ mysql = {}
  /\ ftp_users = {}
  /\ sysusers = {}
  /\ temp = [d \in AllDomains |-> NoFile]
  /\ backup = [d \in AllDomains |-> NoFile]
  /\ job = [k \in Workers |-> Idle]
  /\ pending = [k \in Workers |-> NoForm]
  /\ last = [op |-> "none", id |-> 0, domain |-> "-", mode |-> "-", opts |-> {}, flashes |-> {},
             trace |-> <<>>, failed |-> {}]
  /\ components = [g \in Globals |-> 0]
  /\ initjob = [k \in Workers |-> NotInInit]
  /\ panel = [panel_domain |-> "", panel_port |-> "8080", panel_ssl_enabled |-> "0",
              conf |-> NoFile, cert |-> FALSE]
  /\ attempts = [ip \in IPs |-> [t \in Ticks |-> 0]]
  /\ now = 0
  /\ loginjob = [k \in Workers |-> NoLogin]
  /\ conn = [k \in Workers |-> NoConn]

\* Every request runs from its first statement to its last before the next
\* one starts.
Next ==
  \/ \E form \in Forms(MainDomains, {"default"}, {FALSE}) : \E f \in CreateFailures(form) : CreateSite(form, f)
  \/ \E id \in SiteIds, v \in PhpInputs, f \in OneOf({"update_php", "db_update_php"}) :
       UpdateSitePhp(id, v, f)
  \/ \E id \in SiteIds, f \in OneOf({"issue", "write_tls_default", "enable_tls", "db_update_ssl"}) :
       RequestSsl(id, f)
  \/ \E id \in SiteIds, hc \in BOOLEAN, hk \in BOOLEAN,
        f \in OneOf({"save_cert", "save_key", "chmod_cert", "chmod_key",
                     "write_tls_default", "enable_tls", "db_update_ssl"}) :
       UploadSsl(id, hc, hk, f)
  \/ \E id \in SiteIds, f \in DeleteFailures : DeleteSite(id, f)
  \/ \E id \in SiteIds, t \in RawTexts, f \in OneOf({"write_raw", "nginx_t"}) :
       SaveVhost(id, t, f)
  \/ \E id \in SiteIds, s \in {"default"}, f \in OneOf({"write_current", "enable"}) :
       SavePhpIni(id, s, f)

Spec == Init /\ [][Next]_vars

\* ------------------------------------------------- requests that interleave
\* A worker runs create_site up to and including the pre-check ...
CreateCheck(k, form) ==
  /\ pending[k] = NoForm
  /\ nextSiteId + Cardinality({j \in Workers : pending[j] # NoForm}) <= MaxSiteId
  /\ IF create_precheck(World, form.domain)
     THEN /\ last' = Outcome("create", 0, form.domain, form.ssl_mode,
                             Result(World, {"error:exists"}, <<>>, {}))
          /\ UNCHANGED pending
     ELSE /\ pending' = [pending EXCEPT ![k] = form]
          /\ UNCHANGED last
  /\ UNCHANGED <<sites, databases, nextSiteId, avail, enabled, certs, dirs, mysql,
                 ftp_users, sysusers, temp, backup, job, others>>

\* ... and later the rest of it, on the world as it is by then.
CreateBody(k) ==
  /\ pending[k] # NoForm
  /\ LET r == create_site_body(World, pending[k], {})
     IN  /\ Commit(r)
         /\ last' = Outcome("create", 0, pending[k].domain, pending[k].ssl_mode, r)
  /\ pending' = [pending EXCEPT ![k] = NoForm]
  /\ UNCHANGED <<job, others>>

NextConc ==
  \/ \E k \in Workers, form \in Forms(MainDomains, {"default"}, {FALSE}) : CreateCheck(k, form)
  \/ \E k \in Workers : CreateBody(k)
  \/ \E id \in SiteIds : DeleteSite(id, {})

SpecConc == Init /\ [][NextConc]_vars

\* ------------------------------------------------------------- two domains
\* Sites of two domains side by side: create without a certificate request,
\* raw edits and runtime version changes.
NextTwo ==
  \/ \E form \in [domain : Domains, php_version : {"8.3"}, ssl_mode : {"manual"},
                   php_settings : {"default"}, create_database : {FALSE},
                   create_ftp_user : {FALSE}] :
       CreateSite(form, {})
  \/ \E id \in SiteIds, v \in PhpInputs, f \in OneOf({"update_php", "db_update_php"}) :
       UpdateSitePhp(id, v, f)
  \/ \E id \in SiteIds, t \in RawTexts : SaveVhost(id, t, {})

SpecTwo == Init /\ [][NextTwo]_vars

\* Every workflow that changes files or rows, on the sites of two domains.
NextFrame ==
  \/ \E form \in [domain : Domains, php_version : {"8.3"}, ssl_mode : {"manual"},
                   php_settings : {"default"}, create_database : {FALSE},
                   create_ftp_user : {FALSE}] :
       CreateSite(form, {})
  \/ \E id \in SiteIds : UpdateSitePhp(id, "8.2", {})
  \/ \E id \in SiteIds : RequestSsl(id, {})
  \/ \E id \in SiteIds : UploadSsl(id, TRUE, TRUE, {})
  \/ \E id \in SiteIds : DeleteSite(id, {})
  \/ \E id \in SiteIds : SaveVhost(id, Malformed, {})
  \/ \E id \in SiteIds : TestNginxConfig(id, Malformed, {})
  \/ \E id \in SiteIds : SavePhpIni(id, "default", {})

SpecFrame == Init /\ [][NextFrame]_vars

\* ------------------------------------------------------- raw configuration
\* One site, its raw edits and dry tests with the failures of their file
\* operations, one request after the other.
NextRaw ==
  \/ \E form \in [domain : MainDomains, php_version : {"8.3"}, ssl_mode : {"manual"},
                   php_settings : {"default"}, create_database : {FALSE},
                   create_ftp_user : {FALSE}] :
       CreateSite(form, {})
  \/ \E id \in SiteIds, t \in RawTexts, f \in OneOf({"write_raw", "nginx_t"}) :
       SaveVhost(id, t, f)
  \/ \E id \in SiteIds, t \in RawTexts, f \in TestFailures : TestNginxConfig(id, t, f)

SpecRaw == Init /\ [][NextRaw]_vars

\* ------------------------------------------ raw configuration, interleaved
\* Two request threads inside test_nginx_config or save_vhost for the same
\* site: each file operation and each nginx -t is a step of its own, and the
\* steps of the two requests interleave. No call fails on its own account;
\* a move raises when its source is gone.
TestJob(site_id, d, text, pc, passed) ==
  [op |-> "test", id |-> site_id, d |-> d, text |-> text, pc |-> pc, passed |-> passed]

SaveJob(site_id, d, text) ==
  [op |-> "save", id |-> site_id, d |-> d, text |-> text, pc |-> "test", passed |-> FALSE]

JobMode(j) == IF j.text.ok THEN "valid" ELSE "malformed"

\* the request of worker k returns with result r
Finish(k, op, r) ==
  /\ Commit(r)
  /\ last' = Outcome(op, job[k].id, job[k].d, JobMode(job[k]), r)
  /\ job' = [job EXCEPT ![k] = Idle]
  /\ UNCHANGED <<pending, others>>

\* the request of worker k goes on to its next statement
Advance(k, w, pc, passed) ==
  /\ Commit([w |-> w])
  /\ job' = [job EXCEPT ![k].pc = pc, ![k].passed = passed]
  /\ UNCHANGED <<pending, last, others>>

\* lines 485-496: the lookup and the temporary file
TnStart(k, site_id, text) ==
  /\ job[k] = Idle
  /\ db_get_site(World, site_id) # NoRow
  /\ LET d == db_get_site(World, site_id).domain
     IN  /\ Commit([w |-> tn_write_temp(World, d, text)])
         /\ job' = [job EXCEPT ![k] = TestJob(site_id, d, text, "backup", FALSE)]
  /\ UNCHANGED <<pending, last, others>>

\* lines 499-500
TnBackup(k) ==
  /\ job[k].op = "test" /\ job[k].pc = "backup"
  /\ IF avail[job[k].d] = NoFile
     THEN Finish(k, "test_config",
                 tn_except(World, job[k].d, TRUE, <<"write_temp", "backup">>, {"backup"}, {}))
     ELSE Advance(k, tn_copy_backup(World, job[k].d), "replace", FALSE)

\* line 503
TnReplace(k) ==
  /\ job[k].op = "test" /\ job[k].pc = "replace"
  /\ IF temp[job[k].d] = NoFile
     THEN Finish(k, "test_config",
                 tn_except(World, job[k].d, TRUE, <<"write_temp", "backup", "replace">>,
                           {"replace"}, {}))
     ELSE Advance(k, tn_move_temp(World, job[k].d), "nginx_t", FALSE)

\* lines 506-510
TnTest(k) ==
  /\ job[k].op = "test" /\ job[k].pc = "nginx_t"
  /\ Advance(k, World, "restore", NginxTest(World))

\* lines 513-518
TnRestore(k) ==
  /\ job[k].op = "test" /\ job[k].pc = "restore"
  /\ LET t5 == <<"write_temp", "backup", "replace", "nginx_t", "restore">>
     IN  IF backup[job[k].d] = NoFile
         THEN Finish(k, "test_config", tn_except(World, job[k].d, TRUE, t5, {"restore"}, {}))
         ELSE Finish(k, "test_config",
                     Result(tn_move_backup(World, job[k].d),
                            IF job[k].passed THEN {"json:success"} ELSE {"json:fail"}, t5, {}))

\* save_vhost, lines 448-459: the lookup and the write
SvWrite(k, site_id, text) ==
  /\ job[k] = Idle
  /\ db_get_site(World, site_id) # NoRow
  /\ LET d == db_get_site(World, site_id).domain
     IN  /\ Commit([w |-> [World EXCEPT !.avail[d] = text]])
         /\ job' = [job EXCEPT ![k] = SaveJob(site_id, d, text)]
  /\ UNCHANGED <<pending, last, others>>

\* save_vhost, lines 462-473: nginx -t, then the reload or the warning
SvTest(k) ==
  /\ job[k].op = "save"
  /\ Finish(k, "save_vhost",
            IF NginxTest(World)
            THEN Result(World, {"success:vhost"}, <<"write_raw", "nginx_t", "reload">>, {})
            ELSE Result(World, {"warning:nginx_test"}, <<"write_raw", "nginx_t">>, {}))

\* the text the saves of this specification submit, and those its dry tests
\* submit
SavedText == Render("-", "8.2", FALSE, "default")
TestedTexts == {Malformed, Render("-", "8.3", TRUE, "default")}

NextRace ==
  \/ \E form \in [domain : MainDomains, php_version : {"8.3"}, ssl_mode : {"manual"},
                   php_settings : {"default"}, create_database : {FALSE},
                   create_ftp_user : {FALSE}] :
       CreateSite(form, {})
  \/ \E k \in Workers, id \in SiteIds, t \in TestedTexts : TnStart(k, id, t)
  \/ \E k \in Workers : TnBackup(k)
  \/ \E k \in Workers : TnReplace(k)
  \/ \E k \in Workers : TnTest(k)
  \/ \E k \in Workers : TnRestore(k)
  \/ \E k \in Workers, id \in SiteIds : SvWrite(k, id, SavedText)
  \/ \E k \in Workers : SvTest(k)

SpecRace == Init /\ [][NextRace]_vars

\* every request has returned and the available file of the site is a text
\* that only a dry test submitted: not what create rendered and not what a
\* save wrote
RaceLeavesTestedText ==
  /\ \A k \in Workers : job[k] = Idle
  /\ \E r \in sites : avail[r.domain] \in TestedTexts

\* no two requests are inside the raw-configuration handlers of one domain
Serialized ==
  \A j, k \in Workers : (j # k /\ job[j] # Idle /\ job[k] # Idle) => job[j].d # job[k].d

\* the same requests behind a per-domain lock
NextRaceSerialized == NextRace /\ Serialized'

SpecRaceSerialized == Init /\ [][NextRaceSerialized]_vars

\* ------------------------------------------------------ provisioned databases
\* Creates with and without a database and an FTP/SSH user, and deletes, with
\* failures.
NextDb ==
  \/ \E form \in [domain : MainDomains, php_version : {"8.3"}, ssl_mode : {"manual"},
                   php_settings : {"default"}, create_database : BOOLEAN,
                   create_ftp_user : BOOLEAN] :
       \E f \in CreateFailures(form) : CreateSite(form, f)
  \/ \E id \in SiteIds, f \in DeleteFailures : DeleteSite(id, f)

SpecDb == Init /\ [][NextDb]_vars

\* ------------------------------------------------------- hand-made requests
\* Requests whose fields are not those the pages of the panel offer: a
\* domain with capitals, a runtime version that is not on the list or is
\* missing.
NextInputs ==
  \/ \E form \in [domain : {"a.com"} \cup BadDomains, php_version : AnyPhpInputs,
                   ssl_mode : {"manual"}, php_settings : {"default"},
                   create_database : {FALSE}, create_ftp_user : {FALSE}] :
       \E f \in CreateFailures(form) : CreateSite(form, f)
  \/ \E id \in SiteIds, v \in AnyPhpInputs, f \in OneOf({"update_php", "db_update_php"}) :
       UpdateSitePhp(id, v, f)
  \/ \E id \in SiteIds : DeleteSite(id, {})

SpecInputs == Init /\ [][NextInputs]_vars

\* ------------------------------------------ raw configuration, two domains
\* The sites of two domains and their raw edits and dry tests, with texts
\* that nginx accepts or rejects whatever certificates exist; no call fails
\* on its own account.
PlainTexts == {Malformed, Render("-", "8.3", FALSE, "default"), Render("-", "8.2", FALSE, "default")}

NextIndep ==
  \/ \E form \in [domain : Domains, php_version : {"8.3"}, ssl_mode : {"manual"},
                   php_settings : {"default"}, create_database : {FALSE},
                   create_ftp_user : {FALSE}] :
       CreateSite(form, {})
  \/ \E id \in SiteIds, t \in PlainTexts : SaveVhost(id, t, {})
  \/ \E id \in SiteIds, t \in PlainTexts : TestNginxConfig(id, t, {})

SpecIndep == Init /\ [][NextIndep]_vars

\* ------------------------------------------------------------------ tunables
\* One site created with the default or with its own tunables, and the
\* workflows that render its configuration again.
NextSettings ==
  \/ \E form \in [domain : MainDomains, php_version : {"8.3"}, ssl_mode : {"manual", "auto"},
                   php_settings : SettingsInputs, create_database : {FALSE},
                   create_ftp_user : {FALSE}] :
       CreateSite(form, {})
  \/ \E id \in SiteIds, s \in SettingsInputs, f \in OneOf({"write_current", "enable"}) :
       SavePhpIni(id, s, f)
  \/ \E id \in SiteIds : UpdateSitePhp(id, "8.2", {})
  \/ \E id \in SiteIds : RequestSsl(id, {})
  \/ \E id \in SiteIds : UploadSsl(id, TRUE, TRUE, {})
  \/ \E id \in SiteIds : DeleteSite(id, {})

SpecSettings == Init /\ [][NextSettings]_vars

\* ------------------------------------------------------------ panel settings
\* panel_domain and panel_port values a form submits
PanelDomainInputs == {"", " ", "panel.example"}
PortInputs == {"8080", " 8443", "0", "70000", "abc"}

\* str.strip() on the domain values above
strip(s) == IF s = " " THEN "" ELSE s

\* int(panel_port): the texts that are integers (the others raise
\* ValueError) and their values; str(port) of those values
IsIntText(s) == s \in {"8080", " 8443", "0", "70000"}
int(s) == CASE s = "8080" -> 8080 [] s = " 8443" -> 8443 [] s = "0" -> 0 [] s = "70000" -> 70000
str(n) == CASE n = 8080 -> "8080" [] n = 8443 -> "8443" [] n = 0 -> "0" [] n = 70000 -> "70000"

\* POST /settings/save
save_panel_settings(p, domain_field, panel_port, f) ==
  IF ~IsIntText(panel_port)
  THEN Result(p, {"error:port_value"}, <<>>, {})
  ELSE IF int(panel_port) < 1 \/ int(panel_port) > 65535
  THEN Result(p, {"error:port_range"}, <<>>, {})
  ELSE LET panel_domain == strip(domain_field)
           c == Ctx(panel_domain, "-", "-", FALSE, 0, str(int(panel_port)))
           r == Run(p, IF panel_domain # ""
                       THEN <<"set_panel_domain", "set_panel_port", "panel_config_current">>
                       ELSE <<"set_panel_domain", "set_panel_port">>, f, c)
       IN  Result(r.w,
                  IF r.raised THEN {"error:exception"}
                  ELSE IF panel_domain # "" THEN {"success:panel_nginx"} ELSE {"success:panel"},
                  r.trace, r.failed)

\* the calls of request_panel_ssl's try block
RequestPanelSteps == <<"panel_config_plain", "panel_issue", "panel_config_tls", "set_panel_ssl_on">>

\* the except clause of request_panel_ssl: when the first call had returned
\* (panel_webroot is set) the configuration is rendered without SSL again,
\* and a failure of that is only logged
request_panel_except(r, f, c) ==
  IF "panel_config_plain" \in r.failed
  THEN Result(r.w, {"error:exception"}, r.trace, r.failed)
  ELSE IF "panel_config_revert" \in f
  THEN Result(r.w, {"error:exception"}, r.trace \o <<"panel_config_revert">>,
              r.failed \cup {"panel_config_revert"})
  ELSE Result(Exec("panel_config_revert", r.w, c), {"error:exception"},
              r.trace \o <<"panel_config_revert">>, r.failed)

\* POST /settings/ssl/request
request_panel_ssl(p, f) ==
  IF p.panel_domain = ""
  THEN Result(p, {"error:nodomain"}, <<>>, {})
  ELSE LET c == Ctx(p.panel_domain, "-", "-", FALSE, 0, NoFile)
           r == Run(p, RequestPanelSteps, f, c)
       IN  IF r.raised
           THEN request_panel_except(r, f, c)
           ELSE Result(r.w, {"success:panel_ssl"}, r.trace, r.failed)

\* POST /settings/ssl/disable
disable_panel_ssl(p, f) ==
  LET c == Ctx(p.panel_domain, "-", "-", FALSE, 0, NoFile)
      r == Run(p, <<"panel_config_off", "set_panel_ssl_off">>, f, c)
  IN  Result(r.w, IF r.raised THEN {"error:exception"} ELSE {"success:panel_ssl_off"},
             r.trace, r.failed)

\* the files and rows of the sites
worldvars == <<sites, databases, nextSiteId, avail, enabled, certs, dirs, mysql, ftp_users,
               sysusers, temp, backup>>

SavePanelSettings(domain_field, panel_port, f) ==
  /\ LET r == save_panel_settings(panel, domain_field, panel_port, f)
     IN  /\ f \subseteq r.failed
         /\ panel' = r.w
         /\ last' = Outcome("save_panel", 0, strip(domain_field), panel_port, r)
  /\ UNCHANGED <<worldvars, job, pending, initvars, loginvars, conn>>

RequestPanelSsl(f) ==
  /\ LET r == request_panel_ssl(panel, f)
     IN  /\ f \subseteq r.failed
         /\ panel' = r.w
         /\ last' = Outcome("request_panel_ssl", 0, panel.panel_domain, "-", r)
  /\ UNCHANGED <<worldvars, job, pending, initvars, loginvars, conn>>

DisablePanelSsl(f) ==
  /\ LET r == disable_panel_ssl(panel, f)
     IN  /\ f \subseteq r.failed
         /\ panel' = r.w
         /\ last' = Outcome("disable_panel_ssl", 0, panel.panel_domain, "-", r)
  /\ UNCHANGED <<worldvars, job, pending, initvars, loginvars, conn>>

PanelRequestFailures ==
  OneOf({"panel_config_plain", "panel_issue", "panel_config_tls", "set_panel_ssl_on"})
    \cup {{s, "panel_config_revert"} : s \in {"panel_issue", "panel_config_tls", "set_panel_ssl_on"}}

NextPanel ==
  \/ \E d \in PanelDomainInputs, port \in PortInputs,
        f \in OneOf({"set_panel_domain", "set_panel_port", "panel_config_current"}) :
       SavePanelSettings(d, port, f)
  \/ \E f \in PanelRequestFailures : RequestPanelSsl(f)
  \/ \E f \in OneOf({"panel_config_off", "set_panel_ssl_off"}) : DisablePanelSsl(f)

SpecPanel == Init /\ [][NextPanel]_vars

\* ---------------------------------------------------------- init_components
\* the site workflows and what they leave
sitevars == <<sites, databases, nextSiteId, avail, enabled, certs, dirs, mysql, ftp_users,
              sysusers, temp, backup, job, pending, last>>

\* init_components, statement by statement, in the request threads of one
\* process; no lock is taken. pc 1..4: about to construct and assign the
\* global of that position; pc 5: at the return statement.
\* "if db is None"
InitEnter(k) ==
  /\ initjob[k].pc = 0
  /\ initjob' = [initjob EXCEPT ![k].pc = IF components["db"] = 0 THEN 1 ELSE 5]
  /\ UNCHANGED <<components, sitevars, panel, loginvars, conn>>

\* one of the four assignments; a constructor that raises ends the call with
\* the globals assigned so far in place
InitConstruct(k, raises) ==
  /\ initjob[k].pc \in 1..4
  /\ IF raises
     THEN /\ initjob' = [initjob EXCEPT ![k].pc = 0]
          /\ UNCHANGED components
     ELSE /\ components' = [components EXCEPT ![GlobalOrder[initjob[k].pc]] = @ + 1]
          /\ initjob' = [initjob EXCEPT ![k].pc = @ + 1]
  /\ UNCHANGED <<sitevars, panel, loginvars, conn>>

\* "return db, site_manager, db_manager, user_manager"
InitReturn(k) ==
  /\ initjob[k].pc = 5
  /\ initjob' = [initjob EXCEPT ![k] = [pc |-> 0, done |-> TRUE,
                                         ret |-> {g \in Globals : components[g] > 0}]]
  /\ UNCHANGED <<components, sitevars, panel, loginvars, conn>>

NextInit ==
  \/ \E k \in Workers : InitEnter(k)
  \/ \E k \in Workers, raises \in BOOLEAN : InitConstruct(k, raises)
  \/ \E k \in Workers : InitReturn(k)

SpecInit == Init /\ [][NextInit]_vars

\* ------------------------------------------------------------------ login
\* check_rate_limit's default max_attempts
max_attempts == 5

\* the rows of ip_address whose attempted_at is later than WindowTicks before t
RECURSIVE CountSince(_, _, _)
CountSince(row, t, u) ==
  IF u > t THEN 0 ELSE row[u] + CountSince(row, t, u + 1)

db_get_recent_login_attempts(att, ip_address, t) ==
  CountSince(att[ip_address], t, IF t - WindowTicks + 1 < 0 THEN 0 ELSE t - WindowTicks + 1)

check_rate_limit(att, ip_address, t) ==
  db_get_recent_login_attempts(att, ip_address, t) < max_attempts

db_record_login_attempt(att, ip_address, t) ==
  [att EXCEPT ![ip_address][t] = @ + 1]

loginrest == <<sitevars, initvars, panel, conn>>

\* a login POST up to its rate limit test: rejected, or on to record the attempt
LoginCheck(k, ip_address) ==
  /\ loginjob[k].pc = "idle"
  /\ IF ~check_rate_limit(attempts, ip_address, now)
       THEN /\ last' = Outcome("login", 0, ip_address, "-",
                               Result(World, {"error:rate_limit"}, <<>>, {}))
            /\ UNCHANGED loginjob
       ELSE /\ loginjob' = [loginjob EXCEPT ![k] = [pc |-> "record", ip |-> ip_address]]
            /\ UNCHANGED last
  /\ UNCHANGED <<sites, databases, nextSiteId, avail, enabled, certs, dirs, mysql,
                 ftp_users, sysusers, temp, backup, job, pending>>
  /\ UNCHANGED <<attempts, now, initvars, panel, conn>>

LoginRecord(k) ==
  /\ loginjob[k].pc = "record"
  /\ attempts' = db_record_login_attempt(attempts, loginjob[k].ip, now)
  /\ loginjob' = [loginjob EXCEPT ![k].pc = "verify"]
  /\ UNCHANGED <<now, loginrest>>

\* get_user and check_password_hash: the credentials match or they do not
LoginVerify(k, good) ==
  /\ loginjob[k].pc = "verify"
  /\ last' = Outcome("login", 0, loginjob[k].ip, "-",
                     Result(World, IF good THEN {"success:login"} ELSE {"error:invalid"},
                            <<"record_login_attempt">>, {}))
  /\ loginjob' = [loginjob EXCEPT ![k] = NoLogin]
  /\ UNCHANGED <<sites, databases, nextSiteId, avail, enabled, certs, dirs, mysql,
                 ftp_users, sysusers, temp, backup, job, pending>>
  /\ UNCHANGED <<attempts, now, initvars, panel, conn>>

Tick ==
  /\ now < MaxTime
  /\ now' = now + 1
  /\ UNCHANGED <<attempts, loginjob, loginrest>>

NextLogin ==
  \/ \E k \in Workers, ip_address \in IPs : LoginCheck(k, ip_address)
  \/ \E k \in Workers : LoginRecord(k)
  \/ \E k \in Workers, good \in BOOLEAN : LoginVerify(k, good)
  \/ Tick

SpecLogin == Init /\ [][NextLogin]_vars

\* the same requests handled one at a time
NextLoginSerial ==
  \/ \E k \in Workers, ip_address \in IPs :
       (\A j \in Workers : loginjob[j].pc = "idle") /\ LoginCheck(k, ip_address)
  \/ \E k \in Workers : LoginRecord(k)
  \/ \E k \in Workers, good \in BOOLEAN : LoginVerify(k, good)
  \/ Tick

SpecLoginSerial == Init /\ [][NextLoginSerial]_vars

\* --------------------------------------------------------- get_connection
\* what the database file holds of the tables the blocks below write
Stored ==
  [sites |-> sites, nextSiteId |-> nextSiteId, panel_domain |-> panel.panel_domain,
   panel_port |-> panel.panel_port, panel_ssl_enabled |-> panel.panel_ssl_enabled]

Store(d) ==
  /\ sites' = d.sites
  /\ nextSiteId' = d.nextSiteId
  /\ panel' = [panel EXCEPT !.panel_domain = d.panel_domain, !.panel_port = d.panel_port,
                            !.panel_ssl_enabled = d.panel_ssl_enabled]

NoWork ==
  [sites |-> {}, nextSiteId |-> 0, panel_domain |-> None, panel_port |-> None,
   panel_ssl_enabled |-> None]

\* the statements of a block, in order; _init_db's INSERTs follow its SELECT
\* when that counts no row (the schema statements before it are left out: the
\* tables exist)
DefaultSettings ==
  <<[op |-> "insert_default", key |-> "panel_domain", value |-> ""],
    [op |-> "insert_default", key |-> "panel_port", value |-> "8080"],
    [op |-> "insert_default", key |-> "panel_ssl_enabled", value |-> "0"]>>

Blocks ==
  [_init_db |-> <<[op |-> "count_defaults"]>>,
   create_site |-> <<[op |-> "insert_site", domain |-> "a.com", php_version |-> "8.3"]>>,
   update_site |-> <<[op |-> "update_site", site_id |-> 1, php_version |-> "8.2"]>>,
   delete_site |-> <<[op |-> "delete_site", site_id |-> 1]>>,
   set_panel_setting |-> <<[op |-> "upsert_setting", key |-> "panel_port", value |-> "8443"]>>]

BlockNames == {"_init_db", "create_site", "update_site", "delete_site", "set_panel_setting"}

IsWrite(st) == st.op # "count_defaults"

\* the statement's own error: a UNIQUE column that has the value already
StmtRaises(st, d) ==
  CASE st.op = "insert_site" -> UniqueViolation(d, st.domain)
    [] st.op = "insert_default" -> d[st.key] # None
    [] OTHER -> FALSE

Apply(st, d) ==
  CASE st.op = "insert_site" -> db_create_site(d, st.domain, st.php_version, FALSE)
    [] st.op = "update_site" -> db_update_site_php(d, st.site_id, st.php_version)
    [] st.op = "delete_site" -> db_delete_site(d, st.site_id)
    [] st.op = "upsert_setting" -> db_set_panel_setting(d, st.key, st.value)
    [] st.op = "insert_default" -> [d EXCEPT ![st.key] = st.value]
    [] OTHER -> d

RECURSIVE ApplyAll(_, _)
ApplyAll(sts, d) ==
  IF sts = <<>> THEN d ELSE ApplyAll(Tail(sts), Apply(Head(sts), d))

\* the statements that follow st in its block
Following(st, d, rest) ==
  IF st.op = "count_defaults" /\ d.panel_domain = None THEN DefaultSettings ELSE rest

\* what connection k reads: its own uncommitted writes over the file
View(k) == IF conn[k].wrote THEN conn[k].work ELSE Stored

\* another connection has written and not ended its transaction
Locked(k) == \E j \in Workers \ {k} : conn[j].pc # "idle" /\ conn[j].wrote

\* Variant: "except Exception: conn.commit()".
rollback_commits(d, c) == IF c.wrote THEN c.work ELSE d

\* conn.rollback(): the file keeps what it held
rollback(d, c) == d

txrest == <<databases, avail, enabled, certs, dirs, mysql, ftp_users, sysusers, temp,
            backup, job, pending, initvars, loginvars>>

\* sqlite3.connect and the entry of the with block
TxOpen(k, name) ==
  /\ conn[k].pc = "idle"
  /\ name = "create_site" =>
       nextSiteId + Cardinality({j \in Workers : conn[j].pc # "idle"
                                                   /\ conn[j].block = "create_site"})
         <= MaxSiteId
  /\ conn' = [conn EXCEPT ![k] = [pc |-> "body", open |-> TRUE, block |-> name,
                                  stmts |-> Blocks[name], done |-> <<>>, wrote |-> FALSE,
                                  work |-> NoWork, raised |-> FALSE]]
  /\ UNCHANGED <<sites, nextSiteId, panel, last, txrest>>

\* cursor.execute of the block's next statement: it raises (by itself, because
\* another connection holds the write lock, or because the environment makes
\* it) or it acts on what the connection reads
TxExec(k, raises) ==
  /\ conn[k].pc = "body"
  /\ conn[k].stmts # <<>>
  /\ LET st == Head(conn[k].stmts) IN
       IF raises \/ StmtRaises(st, View(k)) \/ (IsWrite(st) /\ Locked(k))
         THEN conn' = [conn EXCEPT ![k].pc = "except"]
         ELSE conn' = [conn EXCEPT
                ![k].stmts = Following(st, View(k), Tail(conn[k].stmts)),
                ![k].done = IF IsWrite(st) THEN Append(@, st) ELSE @,
                ![k].work = IF IsWrite(st) THEN Apply(st, View(k)) ELSE @,
                ![k].wrote = @ \/ IsWrite(st)]
  /\ UNCHANGED <<sites, nextSiteId, panel, last, txrest>>

\* conn.commit() after the block's last statement
TxCommit(k, raises) ==
  /\ conn[k].pc = "body"
  /\ conn[k].stmts = <<>>
  /\ IF raises
       THEN /\ conn' = [conn EXCEPT ![k].pc = "except"]
            /\ UNCHANGED <<sites, nextSiteId, panel>>
       ELSE /\ conn' = [conn EXCEPT ![k].pc = "finally", ![k].wrote = FALSE,
                                    ![k].work = NoWork]
            /\ Store(View(k))
  /\ UNCHANGED <<last, txrest>>

\* except Exception: conn.rollback(); raise
TxRollback(k) ==
  /\ conn[k].pc = "except"
  /\ Store(rollback(Stored, conn[k]))
  /\ conn' = [conn EXCEPT ![k].pc = "finally", ![k].raised = TRUE, ![k].wrote = FALSE,
                          ![k].work = NoWork]
  /\ UNCHANGED <<last, txrest>>

\* finally: conn.close()
TxClose(k) ==
  /\ conn[k].pc = "finally"
  /\ conn' = [conn EXCEPT ![k] = NoConn]
  /\ UNCHANGED <<sites, nextSiteId, panel, last, txrest>>

NextTx ==
  \/ \E k \in Workers, name \in BlockNames : TxOpen(k, name)
  \/ \E k \in Workers, raises \in BOOLEAN : TxExec(k, raises)
  \/ \E k \in Workers, raises \in BOOLEAN : TxCommit(k, raises)
  \/ \E k \in Workers : TxRollback(k)
  \/ \E k \in Workers : TxClose(k)

\* the database file before Database.__init__ has run _init_db's INSERTs
InitFresh ==
  /\ sites = {} /\ databases = {} /\ nextSiteId = 1
  /\ avail = [d \in AllDomains |-> NoFile]
  /\ enabled = {}
  /\ certs = [d \in AllDomains |-> NoCert]
  /\ dirs = {} /\ mysql = {} /\ ftp_users = {} /\ sysusers = {}
  /\ temp = [d \in AllDomains |-> NoFile]
  /\ backup = [d \in AllDomains |-> NoFile]
  /\ job = [k \in Workers |-> Idle]
  /\ pending = [k \in Workers |-> NoForm]
  /\ last = [op |-> "none", id |-> 0, domain |-> "-", mode |-> "-", opts |-> {}, flashes |-> {},
             trace |-> <<>>, failed |-> {}]
  /\ components = [g \in Globals |-> 0]
  /\ initjob = [k \in Workers |-> NotInInit]
  /\ panel = [panel_domain |-> None, panel_port |-> None, panel_ssl_enabled |-> None,
              conf |-> NoFile, cert |-> FALSE]
  /\ attempts = [ip \in IPs |-> [t \in Ticks |-> 0]]
  /\ now = 0
  /\ loginjob = [k \in Workers |-> NoLogin]
  /\ conn = [k \in Workers |-> NoConn]

SpecTx == InitFresh /\ [][NextTx]_vars

\* ================================================================== claims
Calls(t) == {t[i] : i \in DOMAIN t}
Returned(l, step) == step \in Calls(l.trace) /\ step \notin l.failed
RowOf(domain) == db_get_site_by_domain(World, domain)
IsError(flashes) == flashes \cap {"error:exception", "error:exists", "error:notfound", "error:required"} # {}
IsWarning(flashes) == flashes \cap {"warning:ssl", "warning:db", "warning:nginx_test"} # {}
\* nginx -t ran on the submitted text and rejected it
ValidationFailed(l) ==
  l.op = "save_vhost" /\ "nginx_t" \in Calls(l.trace) /\ l.failed = {} /\ "reload" \notin Calls(l.trace)

\* C1: a raw configuration edit whose text fails validation leaves the
\* available file of the domain with the content it had before the call, and
\* its outcome is a failure.
C1_FailedEditKeepsFile ==
  [][ValidationFailed(last') =>
        /\ avail'[last'.domain] = avail[last'.domain]
        /\ IsError(last'.flashes)]_vars

\* C2: every registered site has ssl_enabled set exactly when its available
\* configuration holds the encrypted-listener block and the certificate
\* material it names exists.
C2_TlsStateMatchesConfig ==
  \A r \in sites :
    r.ssl_enabled <=> /\ avail[r.domain] # NoFile
                      /\ avail[r.domain].ssl
                      /\ CertExists(World, r.domain)

\* C3: every registered site has an available configuration that is linked
\* into sites-enabled.
C3_RegisteredSiteIsLive ==
  \A r \in sites : avail[r.domain] # NoFile /\ r.domain \in enabled

\* C4: a create with a certificate requested in which only the issuance
\* fails registers the site without TLS, leaves its configuration written,
\* enabled and without the encrypted listener, and reports success with a
\* warning.
C4_IssuanceFailureIsWarning ==
  (last.op = "create" /\ last.mode \in {"auto", "domain_only"} /\ last.failed = {"issue"}) =>
     /\ RowOf(last.domain) # NoRow
     /\ ~RowOf(last.domain).ssl_enabled
     /\ avail[last.domain] # NoFile
     /\ avail[last.domain].ok
     /\ ~avail[last.domain].ssl
     /\ last.domain \in enabled
     /\ "warning:ssl" \in last.flashes
     /\ "success:site" \in last.flashes
     /\ ~IsError(last.flashes)

C4_Witness ==
  /\ last.op = "create" /\ last.mode = "auto" /\ last.failed = {"issue"}
  /\ RowOf(last.domain) # NoRow

\* C5: a create for a domain that is already registered changes nothing, on
\* disk or in the registry, makes no call, and reports that the site exists.
C5_ConflictHasNoEffect ==
  [][(last'.op = "create" /\ \E r \in sites : r.domain = last'.domain) =>
        /\ UNCHANGED <<sites, databases, nextSiteId, avail, enabled, certs, dirs, mysql,
                        ftp_users, sysusers, temp, backup>>
        /\ last'.trace = <<>>
        /\ last'.flashes = {"error:exists"}]_vars

C5_Witness ==
  /\ last.op = "create" /\ last.flashes = {"error:exists"}
  /\ RowOf(last.domain) # NoRow

\* C6: no two rows of the registry have the same domain, also when two
\* creates for one domain both pass the pre-check before either inserts.
C6_DomainUnique ==
  \A r1 \in sites, r2 \in sites : r1.domain = r2.domain => r1 = r2

C6_Witness ==
  /\ last.op = "create" /\ last.failed = {"insert"}
  /\ Cardinality({r \in sites : r.domain = last.domain}) = 1

\* C7: the row a create inserts has ssl_enabled set only if the certificate
\* request, the TLS re-render and its enabling all returned within this
\* create; for ssl_mode manual or none the row has it unset and the
\* configuration has no encrypted listener.
C7_PersistedTlsIsActual ==
  (last.op = "create" /\ Returned(last, "insert")) =>
     /\ RowOf(last.domain) # NoRow
     /\ RowOf(last.domain).ssl_enabled =>
          /\ last.mode \in {"auto", "domain_only"}
          /\ Returned(last, "issue")
          /\ Returned(last, "write_tls")
          /\ Returned(last, "enable_tls")
     /\ last.mode \in {"manual", "none"} =>
          /\ ~RowOf(last.domain).ssl_enabled
          /\ avail[last.domain] # NoFile
          /\ ~avail[last.domain].ssl

C7_Witness ==
  /\ last.op = "create" /\ Returned(last, "insert")
  /\ last.mode = "auto" /\ last.failed = {"enable_tls"}
  /\ ~RowOf(last.domain).ssl_enabled

\* C8: a delete in which disabling, dropping a database or removing the
\* directory tree fails still makes every later call, removes the registry
\* row and reports success with a warning.
C8_DeleteRunsEveryStep ==
  (last.op = "delete" /\ last.domain # "-" /\ last.failed # {}
     /\ last.failed \subseteq {"disable", "mysql_drop", "rmtree"}) =>
     /\ {"disable", "rmtree", "db_delete"} \subseteq Calls(last.trace)
     /\ db_get_site(World, last.id) = NoRow
     /\ "success:deleted" \in last.flashes
     /\ IsWarning(last.flashes)
     /\ ~IsError(last.flashes)

\* C9: a delete disables the configuration, then removes the directory tree,
\* then removes the registry row; the row is removed only after the
\* configuration was disabled.
C9_DeleteOrder ==
  last.op = "delete" =>
     LET t == last.trace
     IN  /\ \A i \in DOMAIN t, j \in DOMAIN t :
              \/ t[i] = "disable" /\ t[j] \in {"rmtree", "db_delete"}
              \/ t[i] = "rmtree" /\ t[j] = "db_delete"
              => i < j
         /\ "db_delete" \in Calls(t) => Returned(last, "disable") /\ Returned(last, "rmtree")
         /\ (last.domain # "-" /\ db_get_site(World, last.id) = NoRow) =>
              Returned(last, "disable")

C9_Witness ==
  /\ last.op = "delete" /\ Returned(last, "db_delete")
  /\ db_get_site(World, last.id) = NoRow

\* C10: a runtime version change writes the registry only after the
\* re-rendered configuration was activated; when the activation fails the
\* registry and the available configuration are as before the call.
C10_RegistryFollowsActivation ==
  [][(last'.op = "update_php" /\ last'.domain # "-") =>
        /\ ~Returned(last', "update_php") => (sites' = sites /\ avail' = avail)
        /\ sites' # sites => Returned(last', "update_php")]_vars

C10_Witness ==
  /\ last.op = "update_php" /\ last.failed = {"update_php"}
  /\ RowOf(last.domain) # NoRow
  /\ RowOf(last.domain).php_version # last.mode
  /\ avail[last.domain].php # last.mode
  /\ \E d \in enabled \ {last.domain} : avail[d] = Malformed

\* C11: a certificate request for a registered site sets ssl_enabled only
\* after the issuance, the TLS re-render and its enabling all returned; when
\* any call of the workflow fails the outcome is an error and the registry is
\* as before the call.
C11_RegistryAfterTlsSteps ==
  [][(last'.op = "request_ssl" /\ last'.domain # "-") =>
        /\ last'.failed # {} => (sites' = sites /\ last'.flashes = {"error:exception"})
        /\ sites' # sites =>
             /\ Returned(last', "issue")
             /\ Returned(last', "write_tls_default")
             /\ Returned(last', "enable_tls")
             /\ last'.flashes = {"success:ssl"}]_vars

C11_Witness ==
  /\ last.op = "request_ssl" /\ last.failed = {"enable_tls"}
  /\ Returned(last, "issue") /\ Returned(last, "write_tls_default")
  /\ RowOf(last.domain) # NoRow
  /\ ~RowOf(last.domain).ssl_enabled

\* C12: a certificate request for an id that has no row in the registry
\* reports that the site was not found and makes no call: no issuance, no
\* configuration write, no enabling, no registry update.
C12_UnknownSiteNoCalls ==
  [][(last'.op = "request_ssl" /\ ~\E r \in sites : r.id = last'.id) =>
        /\ UNCHANGED <<sites, databases, nextSiteId, avail, enabled, certs, dirs, mysql,
                        ftp_users, sysusers, temp, backup>>
        /\ last'.trace = <<>>
        /\ last'.flashes = {"error:notfound"}]_vars

C12_Witness ==
  /\ last.op = "request_ssl" /\ last.flashes = {"error:notfound"}
  /\ last.domain = "-"
  /\ sites # {}

\* the reports test_nginx_config returns: success, or success False with
\* the validator's or the exception's text
IsReport(flashes) == flashes \in {{"json:success"}, {"json:fail"}, {"json:error"}}

\* C13: a dry test, one request after the other, leaves the available file
\* of the domain with the content it had before the call, whether the
\* validation passes or fails or the writing, the backing up or the
\* validating raises, and returns a pass/fail report.
C13_DryTestKeepsFile ==
  [][(/\ last'.op = "test_config" /\ last'.domain # "-"
      /\ last'.failed \subseteq {"write_temp", "backup", "backup_partial", "backup_stat",
                                 "replace", "nginx_t"}) =>
        /\ avail'[last'.domain] = avail[last'.domain]
        /\ IsReport(last'.flashes)]_vars

\* what nginx -t says of the files as a step leaves them
NginxTestAfter == NginxTest([avail |-> avail', enabled |-> enabled', certs |-> certs'])

\* C14: a raw configuration save reloads nginx only after nginx -t accepted
\* the text it wrote; when nginx -t rejects the text there is no reload and
\* the available file is back to its content from before the call.
C14_ReloadOnlyAfterValidation ==
  [][(last'.op = "save_vhost" /\ last'.domain # "-") =>
        /\ "reload" \in Calls(last'.trace) =>
             (Returned(last', "write_raw") /\ Returned(last', "nginx_t") /\ NginxTestAfter)
        /\ (Returned(last', "nginx_t") /\ "warning:nginx_test" \in last'.flashes) =>
             /\ "reload" \notin Calls(last'.trace)
             /\ avail'[last'.domain] = avail[last'.domain]]_vars

\* the outcomes that say "validation failed" or "saved/passed": the warning
\* of save_vhost, and the responses of test_nginx_config, which are
\* {'success': False, 'error': <text>} for a rejected text and for a caught
\* exception alike
IsPlainOutcome(flashes) ==
  flashes \cap {"success:vhost", "warning:nginx_test", "json:success", "json:fail", "json:error"} # {}

\* C15: when the restoring of the backup fails in a raw configuration save or
\* a dry test, the outcome is a fatal error of its own kind; no call reports
\* success or a validation failure while it leaves a text that nginx -t did
\* not accept as the available configuration.
C15_RestoreFailureIsFatal ==
  [][(last'.op \in {"save_vhost", "test_config"} /\ last'.domain # "-") =>
        /\ last'.failed \cap {"restore", "restore_vanished", "restore_again"} # {} =>
             (avail'[last'.domain] # avail[last'.domain] => ~IsPlainOutcome(last'.flashes))
        /\ (/\ avail'[last'.domain] # avail[last'.domain]
            /\ ~(Returned(last', "nginx_t") /\ NginxTestAfter)) =>
             ~IsPlainOutcome(last'.flashes)]_vars

\* an outcome the caller can render: success, success with a warning, or a
\* failure, as flashed messages or as the JSON report of the dry test
IsStructured(flashes) ==
  /\ flashes # {}
  /\ flashes \subseteq {"success:site", "success:ssl", "success:db", "success:ftp", "success:php",
                        "success:deleted", "success:vhost", "success:php_ini", "info:manual",
                        "warning:ssl", "warning:db", "warning:ftp", "warning:nginx_test",
                        "error:exception", "error:exists", "error:notfound", "error:required",
                        "json:success", "json:fail", "json:error", "json:notfound"}

\* C16: every workflow ends with an outcome the caller can render, whatever
\* calls fail; no exception leaves the handler, also when the first step of
\* the dry test fails.
C16_NoExceptionEscapes ==
  last.op # "none" => IsStructured(last.flashes)

\* the registry rows of a domain in a set of rows
RowsOf(rows, d) == {r \in rows : r.domain = d}

\* C17: a workflow called for one domain leaves the registry row, the
\* available file, the enabled link and the certificate files of every other
\* domain as they were.
C17_OtherDomainsUntouched ==
  [][\A d \in Domains \ {last'.domain} :
        /\ RowsOf(sites', d) = RowsOf(sites, d)
        /\ avail'[d] = avail[d]
        /\ (d \in enabled') = (d \in enabled)
        /\ certs'[d] = certs[d]]_vars

C17_Witness ==
  /\ last.op = "delete" /\ Returned(last, "db_delete")
  /\ RowOf(last.domain) = NoRow
  /\ \E r \in sites : /\ r.domain # last.domain
                      /\ r.domain \in enabled
                      /\ r.ssl_enabled
                      /\ avail[r.domain].ssl
                      /\ CertExists(World, r.domain)

\* C18: with the raw-configuration calls of a domain one after the other,
\* each call that completes without a failed file operation leaves the
\* available file either with its content from before the call or with the
\* text of a save that succeeded.
C18_SerializedKeepsKnownText ==
  [][(last'.op \in {"save_vhost", "test_config"} /\ last'.domain # "-" /\ last'.failed = {}) =>
        \/ avail'[last'.domain] = avail[last'.domain]
        \/ last'.op = "save_vhost" /\ last'.flashes = {"success:vhost"}]_vars

\* C19: a domain has one available configuration at most (avail maps a
\* domain to one document or to none), and a domain has a link in
\* sites-enabled only while its available file exists, also after a delete
\* and after a workflow that failed part-way.
C19_LinkHasFile ==
  \A d \in enabled : avail[d] # NoFile

C19_Witness ==
  /\ last.op = "create" /\ last.failed = {"write_plain"}
  /\ avail[last.domain] = NoFile
  /\ last.domain \notin enabled

\* C20: a create in which the provisioning of the database or of the FTP/SSH
\* user fails is not aborted or undone: the site is registered, its
\* configuration is written and enabled, the FTP/SSH step still runs after a
\* failed database step, and the outcome is success with a warning.
C20_OptionalFailureIsWarning ==
  (/\ last.op = "create"
   /\ last.failed # {}
   /\ last.failed \subseteq {"mysql_create", "db_row", "ftp_create", "ftp_row"}) =>
     /\ RowOf(last.domain) # NoRow
     /\ avail[last.domain] # NoFile
     /\ avail[last.domain].ok
     /\ last.domain \in enabled
     /\ "ftp" \in last.opts => "ftp_create" \in Calls(last.trace)
     /\ last.failed \cap {"mysql_create", "db_row"} # {} => "warning:db" \in last.flashes
     /\ last.failed \cap {"ftp_create", "ftp_row"} # {} => "warning:ftp" \in last.flashes
     /\ "success:site" \in last.flashes
     /\ ~IsError(last.flashes)

C20_Witness ==
  /\ last.op = "create" /\ last.opts = {"db", "ftp"}
  /\ last.failed = {"mysql_create"}
  /\ Returned(last, "ftp_create") /\ Returned(last, "ftp_row")
  /\ RowOf(last.domain) # NoRow
  /\ last.domain \in enabled

\* C21: every registered site has a runtime version of the configured list,
\* and so has every rendered configuration: a create or a runtime version
\* change that names a version outside the list, or none, reaches neither the
\* registry nor an available file.
C21_VersionInAllowList ==
  /\ \A r \in sites : r.php_version \in AVAILABLE_PHP_VERSIONS
  /\ \A d \in AllDomains :
       (avail[d] # NoFile /\ avail[d].ok) => avail[d].php \in AVAILABLE_PHP_VERSIONS

\* the domain values of the model that are non-empty lowercase DNS names
LowercaseDnsName(d) == d \in Domains

\* C22: every domain of the registry is a non-empty lowercase DNS name, no
\* directory tree or available file exists for a name that is not one, and
\* no workflow changes the domain of a row.
C22_DomainWellFormed ==
  /\ [](/\ \A r \in sites : LowercaseDnsName(r.domain)
        /\ \A d \in dirs : LowercaseDnsName(d)
        /\ \A d \in AllDomains : avail[d] # NoFile => LowercaseDnsName(d))
  /\ [][\A r \in sites, r2 \in sites' : r2.id = r.id => r2.domain = r.domain]_vars

\* no statement of database.py rewrites the domain column
DomainImmutable ==
  [][\A r \in sites, r2 \in sites' : r2.id = r.id => r2.domain = r.domain]_vars

\* what a step with a returned disable or enable does to the link and files
LinkStepsIdempotent ==
  /\ (last'.op = "delete" /\ Returned(last', "disable")) =>
       /\ last'.domain \notin enabled'
       /\ avail' = avail
       /\ (last'.domain \notin enabled => enabled' = enabled)
  /\ (Returned(last', "enable") \/ Returned(last', "enable_tls")) =>
       /\ last'.domain \in enabled'
       /\ (last'.domain \in enabled => enabled' = enabled)

\* C23: enable and disable are idempotent. In every state, enabling a domain
\* twice gives the state of enabling it once, with the link present;
\* disabling it twice gives the state of disabling it once, with the link
\* absent and every available file as it was; the second call does not
\* raise. In the workflows: a delete whose disable returned leaves no link
\* and the available files as they were, also when the link was already
\* gone, and a workflow whose enable returned leaves the link, also when it
\* was already there.
C23_EnableDisableIdempotent ==
  /\ [](\A d \in AllDomains :
          LET c  == Ctx(d, "8.3", "default", FALSE, 0, NoFile)
              e1 == sm_enable_site(World, d)
              d1 == sm_disable_site(World, d)
          IN  /\ sm_enable_site(e1, d) = e1
              /\ d \in e1.enabled
              /\ ~Raises("enable", e1, c, {})
              /\ sm_disable_site(d1, d) = d1
              /\ d \notin d1.enabled
              /\ d1.avail = avail
              /\ ~Raises("disable", d1, c, {}))
  /\ [][LinkStepsIdempotent]_vars

C23_Witness ==
  /\ last.op = "create" /\ last.mode = "auto" /\ last.failed = {}
  /\ Returned(last, "enable") /\ Returned(last, "enable_tls")
  /\ last.domain \in enabled

\* C24: the private key of a domain is never on disk with a mode that lets
\* group or others read it, in the state an upload ends in whatever step of
\* it failed, and after an upload that succeeded the chain is world-readable
\* and the key owner-only.
C24_KeyOwnerOnly ==
  /\ \A d \in AllDomains : certs[d].key \in {"none", "600"}
  /\ (last.op = "upload_ssl" /\ last.flashes = {"success:ssl"}) =>
       certs[last.domain] = [chain |-> "644", key |-> "600"]

\* C25: whether a raw edit or a dry test of one domain passes depends only on
\* the text submitted for it: a text that nginx accepts passes and, for an
\* edit, is applied with a reload, and a text that nginx rejects fails,
\* whatever the available files of the other domains are.
C25_OutcomeIndependentOfOthers ==
  [][(last'.op \in {"save_vhost", "test_config"} /\ last'.domain # "-" /\ last'.failed = {}) =>
        /\ last'.mode = "valid" <=> last'.flashes \in {{"success:vhost"}, {"json:success"}}
        /\ (last'.op = "save_vhost" /\ last'.mode = "valid") => "reload" \in Calls(last'.trace)]_vars

\* C26: a settings edit renders the configuration with the runtime version
\* and the TLS state of the site's registry row and with the submitted
\* tunables, and leaves the registry as it was, whether it succeeds or a call
\* of it fails.
C26_SettingsEditKeepsRegistry ==
  [][(last'.op = "save_php_ini" /\ last'.domain # "-") =>
        /\ sites' = sites
        /\ Returned(last', "write_current") =>
             avail'[last'.domain] =
               Render(last'.domain, RowOf(last'.domain).php_version,
                      RowOf(last'.domain).ssl_enabled, last'.mode)]_vars

C26_Witness ==
  /\ last.op = "save_php_ini" /\ last.mode = "custom" /\ last.flashes = {"success:php_ini"}
  /\ RowOf(last.domain) # NoRow
  /\ RowOf(last.domain).ssl_enabled
  /\ avail[last.domain].ssl
  /\ avail[last.domain].settings = "custom"

\* C27: a certificate request, a certificate upload and a runtime version
\* change leave the tunables of the site's configuration as they were before
\* the call: the configuration they render carries the tunables of the one
\* it replaces.
C27_TunablesPreserved ==
  [][(/\ last'.op \in {"request_ssl", "upload_ssl", "update_php"}
      /\ last'.domain # "-"
      /\ avail[last'.domain] # NoFile) =>
        /\ avail'[last'.domain] # NoFile
        /\ avail'[last'.domain].settings = avail[last'.domain].settings]_vars

\* C28: every link of sites-enabled belongs to a site of the registry, and
\* after a create that ended in its except clause the domain has no row and
\* no link.
C28_EnabledHasRow ==
  /\ \A d \in enabled : RowOf(d) # NoRow
  /\ (last.op = "create" /\ "error:exception" \in last.flashes) =>
       (RowOf(last.domain) = NoRow /\ last.domain \notin enabled)

\* C29: a certificate upload sets ssl_enabled only after the chain and the
\* key were saved and the TLS configuration was rendered and enabled; an
\* upload without the chain or without the key makes no call and changes
\* nothing; when a call of the upload raises the registry is as before.
C29_UploadRegistryLast ==
  [][(last'.op = "upload_ssl" /\ last'.domain # "-") =>
        /\ sites' # sites =>
             /\ \A s \in {"save_cert", "save_key", "chmod_cert", "chmod_key",
                           "write_tls_default", "enable_tls"} : Returned(last', s)
             /\ last'.flashes = {"success:ssl"}
        /\ last'.mode = "missing" =>
             /\ UNCHANGED <<sites, databases, nextSiteId, avail, enabled, certs, dirs, mysql,
                             ftp_users, sysusers, temp, backup>>
             /\ last'.trace = <<>>
             /\ last'.flashes = {"error:required"}
        /\ last'.failed # {} => (sites' = sites /\ last'.flashes = {"error:exception"})]_vars

C29_Witness ==
  /\ last.op = "upload_ssl" /\ last.mode = "both" /\ last.failed = {"enable_tls"}
  /\ CertExists(World, last.domain)
  /\ avail[last.domain].ssl
  /\ RowOf(last.domain) # NoRow
  /\ ~RowOf(last.domain).ssl_enabled

\* the state of a site in a set of registry rows
SiteState(rows, site_id) ==
  IF ~\E r \in rows : r.id = site_id THEN "Absent"
  ELSE IF (CHOOSE r \in rows : r.id = site_id).ssl_enabled THEN "TlsActive"
  ELSE "NoTls"

\* C30: the state of a site in the registry changes only from absent to
\* registered (without or with TLS) by a create, from without TLS to with TLS
\* by a certificate request or upload, and to absent by a delete; ssl_enabled
\* of a registered site never goes from set to unset.
C30_TlsStateTransitions ==
  [][\A id \in SiteIds :
       LET a == SiteState(sites, id)
           b == SiteState(sites', id)
       IN  a # b =>
             \/ a = "Absent" /\ last'.op = "create"
             \/ a = "NoTls" /\ b = "TlsActive" /\ last'.op \in {"request_ssl", "upload_ssl"}
             \/ b = "Absent" /\ last'.op = "delete"]_vars

C30_Witness ==
  /\ last.op = "request_ssl" /\ last.failed = {"issue"}
  /\ SiteState(sites, last.id) = "TlsActive"

\* C31: the site_id of every row of table databases and of every row of table
\* ftp_users is the id of a row of table sites; a delete that removed the
\* site's row left no row of either table that names the site.
C31_NoOrphanRows ==
  /\ \A r \in databases : db_get_site(World, r.site_id) # NoRow
  /\ \A r \in ftp_users : db_get_site(World, r.site_id) # NoRow

\* C32: a runtime version change, a certificate upload, a delete, a raw
\* edit, a dry test and a settings edit for an id that has no row in the
\* registry report that the site was not found, make no call and change no
\* file, link, certificate or row.
C32_UnknownSiteNoEffect ==
  [][(/\ last'.op \in {"update_php", "upload_ssl", "delete", "save_vhost", "test_config",
                       "save_php_ini"}
      /\ ~\E r \in sites : r.id = last'.id) =>
        /\ UNCHANGED <<sites, databases, nextSiteId, avail, enabled, certs, dirs, mysql,
                        ftp_users, sysusers, temp, backup>>
        /\ last'.trace = <<>>
        /\ last'.flashes \in {{"error:notfound"}, {"json:notfound"}}]_vars

C32_Witness ==
  /\ last.op = "save_php_ini" /\ last.flashes = {"error:notfound"}
  /\ last.domain = "-"
  /\ sites # {} /\ enabled # {}

\* C33: every call of init_components that returns, returns four components
\* that are not None, and each of the four globals is constructed once at
\* most in the life of the process, also when the first requests run at the
\* same time.
C33_ComponentsConstructedOnce ==
  /\ \A g \in Globals : components[g] <= 1
  /\ \A k \in Workers : initjob[k].done => initjob[k].ret = Globals

\* C34: the setting panel_ssl_enabled is '1' exactly when the panel's nginx
\* configuration was last rendered with SSL enabled, after any sequence of
\* settings saves, panel certificate requests and panel SSL disables, also
\* after a certificate request that failed while panel SSL was enabled.
C34_PanelSslMatchesConfig ==
  (panel.panel_ssl_enabled = "1") <=> (panel.conf # NoFile /\ panel.conf.ssl)

\* C35: a settings save that ends in an error (the port is not an integer,
\* is outside 1..65535, or a call of the save raises) leaves the persisted
\* panel_domain and panel_port with the values they had before the call.
C35_FailedSaveKeepsSettings ==
  [][(/\ last'.op = "save_panel"
      /\ last'.flashes \cap {"error:port_value", "error:port_range", "error:exception"} # {}) =>
        /\ panel'.panel_domain = panel.panel_domain
        /\ panel'.panel_port = panel.panel_port]_vars

\* a login POST goes on to record an attempt and to check the credentials only
\* from an address that has fewer than max_attempts recent rows at its test
RateLimitRejects ==
  [][\A k \in Workers :
       (loginjob[k].pc = "idle" /\ loginjob'[k].pc = "record")
       => db_get_recent_login_attempts(attempts, loginjob'[k].ip, now) < max_attempts]_vars

\* C36: for every address and every tick t, table login_attempts holds at most
\* max_attempts rows of that address attempted within the window that ends at
\* t, whatever the interleaving of the login requests.
C36_AtMostFiveAttempts ==
  \A ip \in IPs, t \in Ticks :
    db_get_recent_login_attempts(attempts, ip, t) <= max_attempts

\* a step of connection k leaves the file as it is unless it is the commit
\* that ends the block's last statement, and that commit stores every
\* statement the block executed; the end of the except clause leaves no
\* uncommitted write
AllOrNothing ==
  \A k \in Workers :
    /\ (conn[k].pc = "body" /\ conn'[k].pc = "finally")
         => (Stored' = ApplyAll(conn[k].done, Stored) /\ conn[k].stmts = <<>>
             /\ ~conn'[k].raised)
    /\ (conn'[k] # conn[k] /\ ~(conn[k].pc = "body" /\ conn'[k].pc = "finally"))
         => Stored' = Stored
    /\ (conn[k].pc = "except" /\ conn'[k] # conn[k])
         => (conn'[k].pc = "finally" /\ conn'[k].raised /\ ~conn'[k].wrote)
    /\ (conn[k].pc = "finally" /\ conn'[k] # conn[k])
         => conn'[k] = NoConn

====
